---- MODULE Spec2Model ----
(***************************************************************************)
(* Model of src/src/App.tsx (FingerPickerGame): the contact Registry       *)
(* (`fingers`, a Map kept in insertion order), the elimination timer       *)
(* (window.setInterval / eliminationTimerRef), winnerId, bgColor and the   *)
(* two effects.                                                            *)
(*                                                                         *)
(* React scheduling as modelled here:                                      *)
(*  - setFingers(updater) applies the updater to the latest state, once,   *)
(*    in call order; the updater's side effects (playSound, setWinnerId,   *)
(*    clearInterval) happen at that moment;                                *)
(*  - pointerdown / pointerup / pointercancel are discrete events: the     *)
(*    render and its effects are flushed before the next task, so the      *)
(*    handler and the commit form one step;                                *)
(*  - an update made by the setInterval callback or by pointermove only    *)
(*    schedules a render: the commit (render + effects) is a later task    *)
(*    and other tasks may run before it.  Until then the bound handlers    *)
(*    still close over the `fingers` of the last committed render.         *)
(***************************************************************************)
EXTENDS Integers, Sequences, FiniteSets, TLC

\* ---------------------------------------------------------------- bounds
MaxId == 3
StepsPerPeriod == 2
\* ids of the specifications whose contacts differ in position, colour or stamp
MaxRichId == 2

\* ------------------------------------------------------ program constants
ELIMINATION_INTERVAL == 4000
Tries == 30
DEFAULT_BG == "#0A0A0A"

\* null; pointer ids and timer handles are positive integers
None == 0
Ids == 1..MaxId
RichIds == 1..MaxRichId
TimeStep == ELIMINATION_INTERVAL \div StepsPerPeriod
\* ages are counted up to two periods; MaxAge stands for any greater age
MaxAge == 2 * ELIMINATION_INTERVAL
Ages == {q * ELIMINATION_INTERVAL + j * TimeStep :
           q \in 0..1, j \in 0..(StepsPerPeriod - 1)} \cup {MaxAge}

\* ------------------------------------------------------------- inputs
\* (clientX, clientY) of a pointer event
Points == {<<0, 0>>, <<1, 2>>}
\* (pointerType, button, setPointerCapture succeeds) of a down event
DownKinds == {<<"touch", 0, TRUE>>, <<"mouse", 2, TRUE>>, <<"touch", 0, FALSE>>}
\* (pointerType, isPrimary) of a move event
MoveKinds == {<<"touch", TRUE>>, <<"mouse", FALSE>>}
\* one draw of the colour loop: floor(random*360), floor(random*15), floor(random*8)
DrawA == <<0, 5, 5>>
DrawB == <<120, 0, 0>>
\* the stream of draws one call reads from: d1 for the first j draws, d2
\* from then on; one draw more than the loop may use
DrawSeqs == {[i \in 1..(Tries + 1) |-> IF i <= j THEN d1 ELSE d2] :
               d1 \in {DrawA, DrawB}, d2 \in {DrawA, DrawB},
               j \in {0, Tries - 1, Tries}}
\* floor(random*360) of the fallback colour
FallbackHues == {0}
\* Date.now()
Stamps == {0}
TwoStamps == {0, 1}
\* streams that repeat one draw: the call succeeds at its first draw or
\* collides at every draw
ConstDraws == {[i \in 1..(Tries + 1) |-> d] : d \in {DrawA, DrawB}}
\* the inputs of the core specification: one position, one draw sequence
CorePoints == {<<0, 0>>}
CoreDraws == {[i \in 1..Tries |-> DrawA]}

VARIABLES
  fingers,             \* the Registry: the latest `fingers` Map (line 46)
  winnerId,            \* line 47
  bgColor,             \* line 48
  eliminationTimerRef, \* eliminationTimerRef.current (line 49)
  timers,              \* the live intervals: handle |-> ms since start or last tick
  renderedKeys,        \* keys of the `fingers` of the last committed render:
                       \* what the bound handlers and the effect dependency see
  dirty,               \* a render is scheduled and not yet committed
  mounted,             \* the component is mounted
  emitted,             \* the sounds played by the last step, in order
  lastOp,              \* the handler or callback that ran last
  sinceChange,         \* ghost: ms since the Registry's id set last changed
  inputOpen,           \* pointer events may still arrive
  shadow,              \* ghost: a plain set replaying upsert / remove / tick
  updated,             \* ghost: the last step ran upsertFinger's updater for
                       \* an id that was in the Map (line 57)
  alloc                \* ghost: the randomUniqueColor call of the last step:
                       \* its arguments, its result and the draws it made

vars == <<fingers, winnerId, bgColor, eliminationTimerRef, timers,
          renderedKeys, dirty, mounted, emitted, lastOp, sinceChange, inputOpen,
          shadow, updated, alloc>>

\* ------------------------------------------------------------ Map helpers
\* A JS Map is modelled as the sequence of its entries in insertion order.
Keys(m) == [i \in 1..Len(m) |-> m[i].id]

KeySet(m) == {m[i].id : i \in 1..Len(m)}

Has(m, id) == \E i \in 1..Len(m) : m[i].id = id

Get(m, id) == m[CHOOSE i \in 1..Len(m) : m[i].id = id]

\* mutant of MapSet: the entry is always appended
MapSetAppend(m, id, rec) == Append(m, rec)

\* Map.prototype.set: an existing key keeps its place, a new key goes last
MapSet(m, id, rec) ==
  IF Has(m, id)
  THEN [i \in 1..Len(m) |-> IF m[i].id = id THEN rec ELSE m[i]]
  ELSE Append(m, rec)

\* Map.prototype.delete
MapDelete(m, id) == SelectSeq(m, LAMBDA e : e.id # id)

\* Array.prototype.toString of the key array: the keys joined by ","
RECURSIVE KeysToString(_)
KeysToString(ks) ==
  IF Len(ks) = 0 THEN <<>>
  ELSE IF Len(ks) = 1 THEN <<ks[1]>>
  ELSE <<ks[1], ",">> \o KeysToString(Tail(ks))

\* `hsl(${h} ${s}% ${l}%)`
Hsl(h, s, l) == <<"hsl", h, s, l>>

\* the colour of one draw (lines 18-21)
DrawColor(d) == Hsl(d[1], 70 + d[2], 45 + d[3])

\* the loop of randomUniqueColor from iteration `tries` (1-based) on; yields
\* the colour returned and the number of draws the loop made
RECURSIVE ColorLoop(_, _, _, _)
ColorLoop(existing, draws, tries, fb) ==
  IF tries <= Tries
  THEN LET c == DrawColor(draws[tries])
       IN IF c \notin existing THEN [color |-> c, tries |-> tries]
          ELSE ColorLoop(existing, draws, tries + 1, fb)
  ELSE [color |-> Hsl(fb, 75, 50), tries |-> tries - 1]

\* mutant of randomUniqueColorRun: the loop makes one draw more
randomUniqueColorRunExtra(existing, draws, fb) ==
  LET free == {i \in 1..(Tries + 1) : DrawColor(draws[i]) \notin existing} IN
  IF free # {}
  THEN LET k == CHOOSE i \in free : \A j \in free : i <= j IN
       [color |-> DrawColor(draws[k]), tries |-> k]
  ELSE [color |-> Hsl(fb, 75, 50), tries |-> Tries + 1]

\* one call of randomUniqueColor: the colour returned and the draws made
randomUniqueColorRun(existing, draws, fb) == ColorLoop(existing, draws, 1, fb)

randomUniqueColor(existing, draws, fb) ==
  randomUniqueColorRun(existing, draws, fb).color

\* the colours in use (line 55)
ColorsOf(m) == {m[i].color : i \in 1..Len(m)}

\* ghost: no colour was allocated / the allocation upsertFinger makes for a
\* new id
NoAlloc == [existing |-> {}, draws |-> <<>>, fb |-> 0, color |-> <<>>, tries |-> 0]

AllocOf(prev, id, draws, fb) ==
  IF Has(prev, id) THEN NoAlloc
  ELSE LET r == randomUniqueColorRun(ColorsOf(prev), draws, fb) IN
       [existing |-> ColorsOf(prev), draws |-> draws, fb |-> fb,
        color |-> r.color, tries |-> r.tries]

\* ------------------------------------------------------- state updaters
\* Each updater yields [next, sounds, changed]: the Map it returns, the
\* sounds it plays and whether it returned a new object (=> a render).

\* mutant of upsertFinger: an update of a present id renews createdAt
upsertFingerRestamp(prev, id, x, y, draws, fb, now) ==
  IF Has(prev, id)
  THEN [next |-> MapSet(prev, id, [Get(prev, id) EXCEPT !.x = x, !.y = y,
                                                        !.createdAt = now]),
        sounds |-> <<>>, changed |-> TRUE]
  ELSE [next |-> MapSet(prev, id, [id |-> id, x |-> x, y |-> y,
                                   color |-> randomUniqueColor(ColorsOf(prev), draws, fb),
                                   createdAt |-> now]),
        sounds |-> <<"add">>, changed |-> TRUE]

\* mutant of upsertFinger: the colours in use are not passed on
upsertFingerBlind(prev, id, x, y, draws, fb, now) ==
  IF Has(prev, id)
  THEN [next |-> MapSet(prev, id, [Get(prev, id) EXCEPT !.x = x, !.y = y]),
        sounds |-> <<>>, changed |-> TRUE]
  ELSE [next |-> MapSet(prev, id, [id |-> id, x |-> x, y |-> y,
                                   color |-> randomUniqueColor({}, draws, fb),
                                   createdAt |-> now]),
        sounds |-> <<"add">>, changed |-> TRUE]

\* mutant of upsertFinger: every upsert is treated as a new contact
upsertFingerFresh(prev, id, x, y, draws, fb, now) ==
  [next |-> MapSet(prev, id, [id |-> id, x |-> x, y |-> y,
                              color |-> randomUniqueColor(ColorsOf(prev), draws, fb),
                              createdAt |-> now]),
   sounds |-> <<"add">>, changed |-> TRUE]

\* the updater of upsertFinger (lines 53-65)
upsertFinger(prev, id, x, y, draws, fb, now) ==
  LET existing == ColorsOf(prev) IN
  IF Has(prev, id)
  THEN [next |-> MapSet(prev, id, [Get(prev, id) EXCEPT !.x = x, !.y = y]),
        sounds |-> <<>>, changed |-> TRUE]
  ELSE [next |-> MapSet(prev, id,
                   [id |-> id, x |-> x, y |-> y,
                    color |-> randomUniqueColor(existing, draws, fb),
                    createdAt |-> now]),
        sounds |-> <<"add">>, changed |-> TRUE]

\* mutant of removeFinger: a manual removal that leaves one contact plays "win"
removeFingerWin(prev, id) ==
  IF ~Has(prev, id)
  THEN [next |-> prev, sounds |-> <<>>, changed |-> FALSE]
  ELSE LET next == MapDelete(prev, id) IN
       [next |-> next,
        sounds |-> (IF Len(next) > 0 THEN <<"remove">> ELSE <<>>)
                   \o (IF Len(next) = 1 THEN <<"win">> ELSE <<>>),
        changed |-> TRUE]

\* mutant of removeFinger: "remove" is played whatever is left
removeFingerLoud(prev, id) ==
  IF ~Has(prev, id)
  THEN [next |-> prev, sounds |-> <<>>, changed |-> FALSE]
  ELSE [next |-> MapDelete(prev, id), sounds |-> <<"remove">>, changed |-> TRUE]

\* mutant of removeFinger: the early return for an absent id is missing
removeFingerCopy(prev, id) ==
  LET next == MapDelete(prev, id) IN
  [next |-> next,
   sounds |-> IF Len(next) > 0 THEN <<"remove">> ELSE <<>>,
   changed |-> TRUE]

\* the updater of removeFinger (lines 69-75)
removeFinger(prev, id) ==
  IF ~Has(prev, id)
  THEN [next |-> prev, sounds |-> <<>>, changed |-> FALSE]
  ELSE LET next == MapDelete(prev, id) IN
       [next |-> next,
        sounds |-> IF Len(next) > 0 THEN <<"remove">> ELSE <<>>,
        changed |-> TRUE]

\* mutant of eliminationTick: the loser is always the oldest contact
eliminationTickOldest(prev, k) ==
  IF Len(prev) <= 1
  THEN [next |-> prev, sounds |-> <<>>, winner |-> None, stop |-> TRUE,
        changed |-> FALSE]
  ELSE LET loserId == Keys(prev)[1]
           next == MapDelete(prev, loserId)
       IN [next |-> next,
           sounds |-> (IF Len(next) > 0 THEN <<"remove">> ELSE <<>>)
                      \o (IF Len(next) = 1 THEN <<"win">> ELSE <<>>),
           winner |-> IF Len(next) = 1 THEN Keys(next)[1] ELSE None,
           stop |-> FALSE, changed |-> TRUE]

\* mutant of eliminationTick: the `prev.size <= 1` guard is missing
eliminationTickNoGuard(prev, k) ==
  LET next == IF Len(prev) = 0 THEN prev ELSE MapDelete(prev, Keys(prev)[k])
  IN [next |-> next,
      sounds |-> (IF Len(next) > 0 THEN <<"remove">> ELSE <<>>)
                 \o (IF Len(next) = 1 THEN <<"win">> ELSE <<>>),
      winner |-> IF Len(next) = 1 THEN Keys(next)[1] ELSE None,
      stop |-> FALSE, changed |-> TRUE]

\* mutant of eliminationTick: the winning tick plays "win" instead of "remove"
eliminationTickElse(prev, k) ==
  IF Len(prev) <= 1
  THEN [next |-> prev, sounds |-> <<>>, winner |-> None,
        stop |-> TRUE, changed |-> FALSE]
  ELSE LET next == MapDelete(prev, Keys(prev)[k])
       IN [next |-> next,
           sounds |-> IF Len(next) = 1 THEN <<"win">> ELSE <<"remove">>,
           winner |-> IF Len(next) = 1 THEN Keys(next)[1] ELSE None,
           stop |-> FALSE, changed |-> TRUE]

\* the updater of the setInterval callback; k is floor(random * keys.length) + 1.
\* stop: the callback clears the interval; winner: the id handed to
\* setWinnerId, None when it is not called
eliminationTick(prev, k) ==
  IF Len(prev) <= 1
  THEN [next |-> prev, sounds |-> <<>>, winner |-> None,
        stop |-> TRUE, changed |-> FALSE]
  ELSE LET loserId == Keys(prev)[k]
           next == MapDelete(prev, loserId)
       IN [next |-> next,
           sounds |-> (IF Len(next) > 0 THEN <<"remove">> ELSE <<>>)
                      \o (IF Len(next) = 1 THEN <<"win">> ELSE <<>>),
           winner |-> IF Len(next) = 1 THEN Keys(next)[1] ELSE None,
           stop |-> FALSE, changed |-> TRUE]

\* ---------------------------------------------------------------- timers
\* window.setInterval hands out a handle that no live timer has
FreshTimer(ts) == CHOOSE t \in 1..(Cardinality(DOMAIN ts) + 1) : t \notin DOMAIN ts

clearInterval(ts, t) == [u \in DOMAIN ts \ {t} |-> ts[u]]

setInterval(ts) == [u \in DOMAIN ts \cup {FreshTimer(ts)} |->
                      IF u \in DOMAIN ts THEN ts[u] ELSE 0]

NoTimers == [u \in {} |-> 0]

\* mutant of resetEliminationTimer: the interval in the handle is not cleared
resetEliminationTimerLeaky(ref, ts, size) ==
  IF size <= 1 THEN [ref |-> None, timers |-> ts]
  ELSE [ref |-> FreshTimer(ts), timers |-> setInterval(ts)]

\* resetEliminationTimer, run in a render whose `fingers` has `size` entries:
\* yields the new [ref, timers]
resetEliminationTimer(ref, ts, size) ==
  LET ts1 == IF ref # None THEN clearInterval(ts, ref) ELSE ts IN
  IF size <= 1
  THEN [ref |-> None, timers |-> ts1]
  ELSE [ref |-> FreshTimer(ts1), timers |-> setInterval(ts1)]

\* mutant of TimerEffect: winnerId is cleared when a round starts
TimerEffectClears(f, ref, ts, winner, bg) ==
  IF Len(f) > 1
  THEN LET r == resetEliminationTimer(ref, ts, Len(f)) IN
       [ref |-> r.ref, timers |-> r.timers, winner |-> None, bg |-> bg]
  ELSE LET ts1 == IF ref # None THEN clearInterval(ts, ref) ELSE ts IN
       IF Len(f) = 0
       THEN [ref |-> None, timers |-> ts1, winner |-> None, bg |-> DEFAULT_BG]
       ELSE [ref |-> None, timers |-> ts1, winner |-> winner, bg |-> bg]

\* mutant of TimerEffect: the `fingers.size === 0` branch is missing
TimerEffectNoReset(f, ref, ts, winner, bg) ==
  IF Len(f) > 1
  THEN LET r == resetEliminationTimer(ref, ts, Len(f)) IN
       [ref |-> r.ref, timers |-> r.timers, winner |-> winner, bg |-> bg]
  ELSE [ref |-> None,
        timers |-> IF ref # None THEN clearInterval(ts, ref) ELSE ts,
        winner |-> winner, bg |-> bg]

\* The effect "restart elimination when fingers change" for a render whose
\* `fingers` is f; yields [ref, timers, winner, bg]
TimerEffect(f, ref, ts, winner, bg) ==
  IF Len(f) > 1
  THEN LET r == resetEliminationTimer(ref, ts, Len(f)) IN
       [ref |-> r.ref, timers |-> r.timers, winner |-> winner, bg |-> bg]
  ELSE LET ts1 == IF ref # None THEN clearInterval(ts, ref) ELSE ts IN
       IF Len(f) = 0
       THEN [ref |-> None, timers |-> ts1, winner |-> None, bg |-> DEFAULT_BG]
       ELSE [ref |-> None, timers |-> ts1, winner |-> winner, bg |-> bg]

\* The effect runs only when its dependency, the key string, changed
EffectRuns(f, oldKeys) == KeysToString(Keys(f)) # KeysToString(oldKeys)

\* Commit of a render of `f`: both effects; the handlers are re-bound to f
CommitEffects(f, w) ==
  LET e == IF EffectRuns(f, renderedKeys)
           THEN TimerEffect(f, eliminationTimerRef, timers, w, bgColor)
           ELSE [ref |-> eliminationTimerRef, timers |-> timers,
                 winner |-> w, bg |-> bgColor]
  IN /\ eliminationTimerRef' = e.ref
     /\ timers' = e.timers
     /\ winnerId' = e.winner
     /\ bgColor' = e.bg
     /\ renderedKeys' = Keys(f)
     /\ dirty' = FALSE

\* ghost (shadow): the ids of a plain set on which the same operations are
\* replayed; ghost (sinceChange): time since the Registry's id set last changed, saturating
Touch(old, new) == IF KeySet(old) # KeySet(new) THEN 0 ELSE sinceChange

\* ------------------------------------------------------------------ Init
Init ==
  /\ fingers = <<>>
  /\ winnerId = None
  /\ bgColor = DEFAULT_BG
  /\ eliminationTimerRef = None
  /\ timers = NoTimers
  /\ renderedKeys = <<>>
  /\ dirty = FALSE
  /\ mounted = TRUE
  /\ emitted = <<>>
  /\ lastOp = "mount"
  /\ sinceChange = 0
  /\ inputOpen = TRUE
  /\ shadow = {}
  /\ alloc = NoAlloc
  /\ updated = FALSE

\* --------------------------------------------------------------- actions
\* a handler that returns at its filter (lines 123, 129), or that ends at
\* the exception setPointerCapture throws (line 124): nothing is updated
Ignored ==
  /\ lastOp' = "ignored"
  /\ emitted' = <<>>
  /\ alloc' = NoAlloc
  /\ updated' = FALSE
  /\ UNCHANGED <<fingers, winnerId, bgColor, eliminationTimerRef, timers,
                 renderedKeys, dirty, mounted, sinceChange, inputOpen, shadow>>

\* captures: setPointerCapture succeeds; it throws NotFoundError when the
\* pointer of the event is not active, and line 124 is not in a try, so the
\* listener ends before upsertFinger
onPointerDown(id, x, y, ptype, button, captures, draws, fb, now) ==
  /\ mounted /\ inputOpen
  /\ IF (ptype = "mouse" /\ button # 0) \/ ~captures
     THEN Ignored
     ELSE LET u == upsertFinger(fingers, id, x, y, draws, fb, now) IN
          /\ lastOp' = "down"
          /\ shadow' = shadow \cup {id}
          /\ alloc' = AllocOf(fingers, id, draws, fb)
          /\ updated' = Has(fingers, id)
          /\ fingers' = u.next
          /\ emitted' = u.sounds
          /\ sinceChange' = Touch(fingers, u.next)
          /\ CommitEffects(u.next, winnerId)
          /\ UNCHANGED <<mounted, inputOpen>>

\* `fingers` in the handler is the Map of the render that bound it
onPointerMove(id, x, y, ptype, isPrimary, draws, fb, now) ==
  /\ mounted /\ inputOpen
  /\ IF ~isPrimary /\ ptype = "mouse"
     THEN Ignored
     ELSE /\ lastOp' = "move"
          /\ UNCHANGED <<mounted, inputOpen, winnerId, bgColor,
                         eliminationTimerRef, timers, renderedKeys>>
          /\ IF \E i \in 1..Len(renderedKeys) : renderedKeys[i] = id
             THEN LET u == upsertFinger(fingers, id, x, y, draws, fb, now) IN
                  /\ shadow' = shadow \cup {id}
                  /\ alloc' = AllocOf(fingers, id, draws, fb)
                  /\ updated' = Has(fingers, id)
                  /\ fingers' = u.next
                  /\ emitted' = u.sounds
                  /\ sinceChange' = Touch(fingers, u.next)
                  /\ dirty' = TRUE
             ELSE /\ emitted' = <<>>
                  /\ alloc' = NoAlloc
                  /\ updated' = FALSE
                  /\ UNCHANGED <<fingers, dirty, sinceChange, shadow>>

\* pointerup / pointercancel are discrete events: unless React bails out
\* (the updater returned the same Map and no update was queued), the render
\* and its effects run in the same task, a pending render included
onPointerUp(id) ==
  /\ mounted /\ inputOpen
  /\ lastOp' = "up"
  /\ alloc' = NoAlloc
  /\ updated' = FALSE
  /\ UNCHANGED <<mounted, inputOpen>>
  /\ shadow' = shadow \ {id}
  /\ LET u == removeFinger(fingers, id) IN
     /\ emitted' = u.sounds
     /\ fingers' = u.next
     /\ sinceChange' = Touch(fingers, u.next)
     /\ IF u.changed \/ dirty
        THEN CommitEffects(u.next, winnerId)
        ELSE UNCHANGED <<winnerId, bgColor, eliminationTimerRef, timers,
                         renderedKeys, dirty>>

\* timers[t] is the time since interval t was started or last became due.
\* When its callback runs at age `age`, the browser either counts the next
\* period from the callback (0) or keeps the schedule start + n * period
\* (age - period: a late callback is followed by an early one); an age of
\* MaxAge stands for any age from MaxAge on
RearmCounts(age, period) ==
  {0, age - period}
    \cup (IF age = MaxAge THEN {n \in Ages : n >= age - period} ELSE {})

Rearm(ts, t, c) == [ts EXCEPT ![t] = c]

\* the setInterval callback of timer t; k is floor(random * keys.length) + 1;
\* c is the age the interval goes on with.
\* period: the time that must have passed since the timer was started or
\* last became due; 0 leaves time out of the model (the callback may run at
\* any moment while the interval is live)
Tick(t, k, period, c) ==
  /\ t \in DOMAIN timers
  /\ timers[t] >= period
  /\ c \in RearmCounts(timers[t], period)
  /\ k \in 1..(IF Len(fingers) = 0 THEN 1 ELSE Len(fingers))
  /\ lastOp' = "tick"
  /\ alloc' = NoAlloc
  /\ updated' = FALSE
  /\ UNCHANGED <<mounted, inputOpen, bgColor, renderedKeys>>
  /\ IF ~mounted
     THEN /\ timers' = Rearm(timers, t, c)
          /\ emitted' = <<>>
          /\ UNCHANGED <<fingers, winnerId, eliminationTimerRef, dirty,
                         sinceChange, shadow>>
     ELSE LET u == eliminationTick(fingers, k) IN
          /\ fingers' = u.next
          /\ emitted' = u.sounds
          /\ winnerId' = IF u.winner # None THEN u.winner ELSE winnerId
          /\ timers' = IF u.stop /\ eliminationTimerRef # None
                       THEN clearInterval(Rearm(timers, t, c), eliminationTimerRef)
                       ELSE Rearm(timers, t, c)
          /\ eliminationTimerRef' = IF u.stop THEN None ELSE eliminationTimerRef
          /\ dirty' = (dirty \/ u.changed)
          /\ sinceChange' = Touch(fingers, u.next)
          /\ shadow' = IF Len(fingers) >= 2 THEN shadow \ {Keys(fingers)[k]} ELSE shadow

\* the scheduled render and its effects
Commit ==
  /\ mounted /\ dirty
  /\ lastOp' = "commit"
  /\ alloc' = NoAlloc
  /\ updated' = FALSE
  /\ emitted' = <<>>
  /\ CommitEffects(fingers, winnerId)
  /\ UNCHANGED <<fingers, mounted, inputOpen, sinceChange, shadow>>

\* the age TimeStep later; the last step of a period ends on the period
Sat(n) ==
  IF n >= MaxAge - TimeStep - StepsPerPeriod THEN MaxAge
  ELSE IF (n % ELIMINATION_INTERVAL) + TimeStep + StepsPerPeriod > ELIMINATION_INTERVAL
       THEN ((n \div ELIMINATION_INTERVAL) + 1) * ELIMINATION_INTERVAL
       ELSE n + TimeStep

\* TimeStep milliseconds pass
Elapse ==
  /\ \/ sinceChange < MaxAge
     \/ \E t \in DOMAIN timers : timers[t] < MaxAge
  /\ timers' = [t \in DOMAIN timers |-> Sat(timers[t])]
  /\ sinceChange' = Sat(sinceChange)
  /\ lastOp' = "elapse"
  /\ alloc' = NoAlloc
  /\ updated' = FALSE
  /\ emitted' = <<>>
  /\ UNCHANGED <<fingers, winnerId, bgColor, eliminationTimerRef,
                 renderedKeys, dirty, mounted, inputOpen, shadow>>

\* the component is torn down: its state is discarded and the listener
\* effect's cleanup runs; the timer effect has no cleanup, so the interval
\* and the ref object its callback closes over live on
Unmount ==
  /\ mounted /\ inputOpen
  /\ mounted' = FALSE
  /\ fingers' = <<>>
  /\ winnerId' = None
  /\ renderedKeys' = <<>>
  /\ dirty' = FALSE
  /\ shadow' = {}
  /\ sinceChange' = 0
  /\ lastOp' = "unmount"
  /\ alloc' = NoAlloc
  /\ updated' = FALSE
  /\ emitted' = <<>>
  /\ UNCHANGED <<bgColor, eliminationTimerRef, timers, inputOpen>>

DownOn(ids, pts, dseqs, stamps) ==
  \E id \in ids, p \in pts, kind \in DownKinds,
     d \in dseqs, fb \in FallbackHues, now \in stamps :
    onPointerDown(id, p[1], p[2], kind[1], kind[2], kind[3], d, fb, now)

MoveOn(ids, pts, dseqs, stamps) ==
  \E id \in ids, p \in pts, kind \in MoveKinds,
     d \in dseqs, fb \in FallbackHues, now \in stamps :
    onPointerMove(id, p[1], p[2], kind[1], kind[2], d, fb, now)

Down == DownOn(Ids, CorePoints, CoreDraws, Stamps)

Move == MoveOn(Ids, CorePoints, CoreDraws, Stamps)

Up == \E id \in Ids : onPointerUp(id)

\* a tick at any moment while the interval is live
TickStep == \E t \in DOMAIN timers, k \in 1..MaxId : Tick(t, k, 0, 0)

\* a tick once ELIMINATION_INTERVAL has elapsed
TimedTickStep ==
  \E t \in DOMAIN timers, k \in 1..MaxId, c \in Ages :
    Tick(t, k, ELIMINATION_INTERVAL, c)

\* time left out: the order of the tasks only
Next == Down \/ Move \/ Up \/ TickStep \/ Commit \/ Unmount

Spec == Init /\ [][Next]_vars

\* with the clock: a tick needs a full period since the start or last tick
TimedNext == Down \/ Move \/ Up \/ TimedTickStep \/ Commit \/ Elapse \/ Unmount

TimedSpec == Init /\ [][TimedNext]_vars

RichUp == \E id \in RichIds : onPointerUp(id)

RichTick == \E t \in DOMAIN timers, k \in 1..MaxRichId : Tick(t, k, 0, 0)

\* contacts that differ in position, on RichIds
PosDown == DownOn(RichIds, Points, CoreDraws, Stamps)

PosMove == MoveOn(RichIds, Points, CoreDraws, Stamps)

PosNext == PosDown \/ PosMove \/ RichUp \/ RichTick \/ Commit \/ Unmount

PosSpec == Init /\ [][PosNext]_vars

\* contacts that differ in colour, on RichIds; every stream of draws
ColorDown == DownOn(RichIds, CorePoints, DrawSeqs, Stamps)

ColorMove == MoveOn(RichIds, CorePoints, CoreDraws, Stamps)

ColorNext == ColorDown \/ ColorMove \/ RichUp \/ RichTick \/ Commit \/ Unmount

ColorSpec == Init /\ [][ColorNext]_vars

\* contacts that differ in colour and creation stamp, on RichIds
StampDown == DownOn(RichIds, CorePoints, ConstDraws, TwoStamps)

StampMove == MoveOn(RichIds, CorePoints, ConstDraws, TwoStamps)

StampNext == StampDown \/ StampMove \/ RichUp \/ RichTick \/ Commit \/ Unmount

StampSpec == Init /\ [][StampNext]_vars

TypeOK ==
  /\ winnerId \in Ids \cup {None}
  /\ dirty \in BOOLEAN
  /\ Len(fingers) <= MaxId
  /\ Cardinality(DOMAIN timers) <= 1

\* no further pointer events arrive and the component stays mounted
StopInput ==
  /\ mounted /\ inputOpen
  /\ inputOpen' = FALSE
  /\ lastOp' = "stop"
  /\ alloc' = NoAlloc
  /\ updated' = FALSE
  /\ emitted' = <<>>
  /\ UNCHANGED <<fingers, winnerId, bgColor, eliminationTimerRef, timers,
                 renderedKeys, dirty, mounted, sinceChange, shadow>>

FairNext == Next \/ StopInput

\* a live interval keeps firing and a scheduled render is committed
FairSpec == Init /\ [][FairNext]_vars
            /\ WF_vars(TickStep) /\ WF_vars(Commit)

\* ------------------------------------------------------------ properties
Count(snd, seq) == Cardinality({i \in 1..Len(seq) : seq[i] = snd})

Active == eliminationTimerRef # None \/ DOMAIN timers # {}

Reconciled == mounted /\ ~dirty

\* the step is a tick that removed a contact
Eliminates == lastOp' = "tick" /\ Len(fingers') < Len(fingers)

\* C1: the Registry holds one entry per id, its id set is the set obtained by
\* replaying the operations on a plain set, and its size is the size of that set
C1_RegistryIsSet ==
  /\ KeySet(fingers) = shadow
  /\ Len(fingers) = Cardinality(shadow)
  /\ \A i, j \in 1..Len(fingers) : fingers[i].id = fingers[j].id => i = j

\* an elimination tick has taken three contacts to two
C1_Witness ==
  /\ Len(fingers) = 2 /\ lastOp = "tick" /\ Cardinality(shadow) = 2

\* C2: in every reconciled state a timer is running iff the Registry holds
\* two or more contacts
C2_ActiveIffTwo == Reconciled => (Active <=> Len(fingers) >= 2)

\* C3: from size <= 1 no tick changes the Registry; the only steps that
\* shrink it are a manual removal and the teardown of the component
C3_NoEliminationAtOne ==
  [][Len(fingers) <= 1 =>
       /\ (lastOp' = "tick" => fingers' = fingers)
       /\ (Len(fingers') < Len(fingers) => lastOp' \in {"up", "unmount"})]_vars

\* a tick fired on a Registry of one contact and left it alone
C3_Witness ==
  /\ mounted /\ lastOp = "tick" /\ emitted = <<>>
  /\ Len(fingers) = 1 /\ eliminationTimerRef = None

\* the step is an elimination tick that takes the Registry from 2 to 1
TickTwoToOne == lastOp' = "tick" /\ Len(fingers) = 2 /\ Len(fingers') = 1

\* C4: "win" is played once, and winnerId set to the sole remaining contact,
\* by exactly the ticks that take the Registry from 2 to 1; no other step
\* plays "win" or sets winnerId to a contact
C4_WinnerOnlyByTick ==
  [][/\ Count("win", emitted') = (IF TickTwoToOne THEN 1 ELSE 0)
     /\ (TickTwoToOne => winnerId' = fingers'[1].id)
     /\ (~TickTwoToOne => winnerId' \in {winnerId, None})]_vars

\* a tick has just declared the winner
C4_Witness ==
  /\ lastOp = "tick" /\ Count("win", emitted) = 1
  /\ Len(fingers) = 1 /\ winnerId = fingers[1].id

Settled ==
  /\ Len(fingers) = 1
  /\ winnerId = fingers[1].id
  /\ ~Active

\* C5: with two or more contacts and no further input, the game eventually
\* settles for good on one contact, which is the winner, with no timer
C5_EventuallyWinner ==
  [](( ~inputOpen /\ mounted /\ Len(fingers) >= 2) => <>[]Settled)

\* C6 as stated: an eliminating tick plays exactly one sound, "win" when one
\* contact remains and "remove" otherwise
C6_OneSignalPerTick ==
  [][Eliminates =>
       emitted' = (IF Len(fingers') = 1 THEN <<"win">> ELSE <<"remove">>)]_vars

\* C6 amended: an eliminating tick plays "remove", and the tick that leaves
\* exactly one contact plays "win" after it
C6_RemoveThenWin ==
  [][Eliminates =>
       emitted' = (IF Len(fingers') = 1 THEN <<"remove", "win">>
                                        ELSE <<"remove">>)]_vars

\* the winning tick has played both sounds
C6_Witness ==
  /\ lastOp = "tick" /\ emitted = <<"remove", "win">> /\ Len(fingers) = 1

\* C7: after teardown no timer is left and no tick fires
C7_NoTimerAfterTeardown ==
  ~mounted => (DOMAIN timers = {} /\ lastOp # "tick")

\* C8: a move never creates a contact nor plays "add"
C8_MoveNeverCreates ==
  [][lastOp' = "move" =>
       (KeySet(fingers') = KeySet(fingers) /\ Count("add", emitted') = 0)]_vars

\* C9: once a change of membership that leaves two or more contacts is
\* reconciled, the running timer was started at or after that change: its
\* countdown is no older than the change
C9_FreshTimerAfterChange ==
  (Reconciled /\ Len(fingers) >= 2) =>
     \A t \in DOMAIN timers : timers[t] <= sinceChange

\* C10: in every reconciled state with an empty Registry, winnerId is null
\* and the background is the default
C10_EmptyResets ==
  (Reconciled /\ Len(fingers) = 0) => (winnerId = None /\ bgColor = DEFAULT_BG)

\* the last contact has just been lifted
C10_Witness ==
  /\ Reconciled /\ Len(fingers) = 0 /\ lastOp = "up" /\ winnerId = None

\* what committing the render that is already pending does to the timer
PendingReconcile ==
  IF EffectRuns(fingers, renderedKeys)
  THEN TimerEffect(fingers, eliminationTimerRef, timers, winnerId, bgColor)
  ELSE [ref |-> eliminationTimerRef, timers |-> timers,
        winner |-> winnerId, bg |-> bgColor]

\* a pointerdown or pointermove that upserts an id already in the Registry
UpsertsPresent == lastOp' \in {"down", "move"} /\ updated'

\* C11: a pointerdown or pointermove for an id already in the Registry
\* changes at most that one record, and of it only x and y: the keys, their
\* order and the size stay, no sound is played, winnerId stays; a move leaves
\* the timer alone, and so does a duplicate down when no render is pending;
\* with a render pending the down does to the timer what committing that
\* render alone does
C11_UpsertPresentMovesOnly ==
  [][UpsertsPresent =>
       /\ Keys(fingers') = Keys(fingers)
       /\ emitted' = <<>>
       /\ winnerId' = winnerId
       /\ Cardinality({i \in 1..Len(fingers) : fingers'[i] # fingers[i]}) <= 1
       /\ \A i \in 1..Len(fingers) :
            /\ fingers'[i].color = fingers[i].color
            /\ fingers'[i].createdAt = fingers[i].createdAt
       /\ (lastOp' = "move" \/ ~dirty) =>
            (timers' = timers /\ eliminationTimerRef' = eliminationTimerRef)
       /\ lastOp' = "down" =>
            /\ timers' = PendingReconcile.timers
            /\ eliminationTimerRef' = PendingReconcile.ref]_vars

\* two contacts under a running timer, one of them just moved to another
\* position
C11_Witness ==
  /\ lastOp = "move" /\ updated /\ dirty /\ emitted = <<>>
  /\ Len(fingers) = 2 /\ Keys(fingers) = renderedKeys
  /\ fingers[1].x # fingers[2].x
  /\ eliminationTimerRef # None

\* C12: a pointerup / pointercancel for an id in the Registry removes that
\* one contact and plays "remove" exactly when a contact is left; the
\* removal that empties the Registry plays nothing
C12_RemoveSignalIffRemaining ==
  [][(lastOp' = "up" /\ shadow' # shadow) =>
       /\ Len(fingers') = Len(fingers) - 1
       /\ emitted' = IF Len(fingers') > 0 THEN <<"remove">> ELSE <<>>]_vars

\* one of two contacts has just been lifted, with its sound
C12_Witness ==
  /\ lastOp = "up" /\ emitted = <<"remove">>
  /\ Len(fingers) = 1 /\ Reconciled

C14_DistinctColors ==
  \A i \in 1..Len(fingers) : \A j \in 1..Len(fingers) :
    i # j => fingers[i].color # fingers[j].color

\* C14, amended: a contact that enters the Registry gets a colour that no
\* contact then in the Registry has, unless each of the 30 draws of the
\* call gave a colour in use
C14_DistinctUnlessExhausted ==
  [][Len(fingers') > Len(fingers) =>
       LET new == fingers'[Len(fingers')] IN
       \/ new.color \notin ColorsOf(fingers)
       \/ \A i \in 1..Tries : DrawColor(alloc'.draws[i]) \in ColorsOf(fingers)]_vars

\* the second contact got its colour from the last draw of the loop, after
\* 29 collisions, and it differs from the first contact's
C14_Witness ==
  /\ lastOp = "down" /\ Len(fingers) = 2
  /\ alloc.tries = Tries /\ alloc.color \notin alloc.existing
  /\ fingers[1].color # fingers[2].color

\* C15: no step changes the colour or the createdAt of a contact that is in
\* the Registry before and after it
C15_ColorAndStampFixed ==
  [][\A id \in KeySet(fingers) \cap KeySet(fingers') :
       /\ Get(fingers', id).color = Get(fingers, id).color
       /\ Get(fingers', id).createdAt = Get(fingers, id).createdAt]_vars

\* two contacts created at different times with different colours, one of
\* them just moved
C15_Witness ==
  /\ lastOp = "move" /\ dirty /\ Keys(fingers) = renderedKeys
  /\ Len(fingers) = 2
  /\ fingers[1].createdAt # fingers[2].createdAt
  /\ fingers[1].color # fingers[2].color

\* the Registry without its k-th entry, the other records as they were
Without(m, k) == [i \in 1..(Len(m) - 1) |-> IF i < k THEN m[i] ELSE m[i + 1]]

\* a tick can fire now and remove the k-th contact
CanEliminate(k) ==
  ENABLED (TickStep /\ lastOp' = "tick" /\ fingers' = Without(fingers, k))

\* C16: a tick that finds two or more contacts removes exactly one of them
\* and leaves the other records and their order as they were; and wherever
\* a tick can fire on two or more contacts, it can remove any one of them
C16_TickRemovesAnyOne ==
  /\ [][(lastOp' = "tick" /\ mounted /\ Len(fingers) >= 2) =>
          \E k \in 1..Len(fingers) : fingers' = Without(fingers, k)]_vars
  /\ []((mounted /\ Len(fingers) >= 2 /\ DOMAIN timers # {}) =>
          \A k \in 1..Len(fingers) : CanEliminate(k))

\* a tick on three contacts has just removed the declared winner of the
\* round before, the oldest of them
C16_Witness ==
  /\ lastOp = "tick" /\ Len(fingers) = 2
  /\ winnerId # None /\ winnerId \notin KeySet(fingers)
  /\ emitted = <<"remove">>

\* C17: whenever winnerId is set, the Registry holds exactly one contact and
\* winnerId is its id
C17_WinnerIsSoleContact ==
  winnerId # None => (Len(fingers) = 1 /\ fingers[1].id = winnerId)

\* C17, amended: winnerId takes a new id only in a tick, and then the
\* Registry holds exactly the contact it names; once set it is cleared only
\* by a step that leaves the Registry empty, so adding contacts or lifting
\* the winner while others remain leaves it as it is
C17_WinnerKeptUntilEmpty ==
  [][/\ (winnerId' # winnerId /\ winnerId' # None) =>
          (lastOp' = "tick" /\ Len(fingers') = 1 /\ fingers'[1].id = winnerId')
     /\ (winnerId # None /\ winnerId' = None) => Len(fingers') = 0]_vars

\* a contact was added after the winner was declared: winnerId still names
\* the winner, now one of two contacts
C17_Witness ==
  /\ lastOp = "down" /\ emitted = <<"add">>
  /\ Len(fingers) = 2 /\ winnerId = fingers[1].id

\* C18: at most one interval is live, and the handle names it: the handle is
\* null exactly when no interval is live, and no live interval is one the
\* handle does not refer to
C18_OneTimerInHandle ==
  /\ Cardinality(DOMAIN timers) <= 1
  /\ (eliminationTimerRef # None) <=> (DOMAIN timers # {})
  /\ DOMAIN timers \subseteq {eliminationTimerRef}

\* lifting one of three contacts has just restarted the timer
C18_Witness ==
  /\ lastOp = "up" /\ emitted = <<"remove">> /\ Len(fingers) = 2
  /\ eliminationTimerRef # None
  /\ DOMAIN timers = {eliminationTimerRef}

\* the draws of the call, among the first 30, whose colour is not in use
FreeDraws == {i \in 1..Tries : DrawColor(alloc.draws[i]) \notin alloc.existing}

\* C19: a call of the allocator makes between 1 and 30 draws and returns the
\* colour of the first draw that is not in use, having made no draw after
\* it; when all 30 draws are in use it returns hsl(h 75% 50%), and only then
\* can the colour returned be one in use; what it returns is a colour, and
\* it is the colour the new contact gets
C19_FirstFreeOfThirty ==
  alloc.tries # 0 =>
    /\ alloc.tries \in 1..Tries
    /\ FreeDraws # {} =>
         /\ alloc.tries \in FreeDraws
         /\ \A i \in FreeDraws : alloc.tries <= i
         /\ alloc.color = DrawColor(alloc.draws[alloc.tries])
    /\ FreeDraws = {} =>
         (alloc.tries = Tries /\ alloc.color = Hsl(alloc.fb, 75, 50))
    /\ alloc.color \in alloc.existing => FreeDraws = {}
    /\ Len(alloc.color) = 4 /\ alloc.color[1] = "hsl"
    /\ fingers[Len(fingers)].color = alloc.color

\* all 30 draws gave the colour in use, and the fallback was returned
\* although the draw after them was free
C19_Witness ==
  /\ alloc.tries = Tries /\ FreeDraws = {}
  /\ alloc.existing # {}
  /\ DrawColor(alloc.draws[Tries + 1]) \notin alloc.existing
  /\ alloc.color = Hsl(alloc.fb, 75, 50)
====
